---- MODULE Spec2Model ----
(***************************************************************************)
(* Model of index.js: the historical token ownership tool.                 *)
(*                                                                         *)
(* One run of the script: validation of the command line, the chunked and  *)
(* grouped fetch loop of main(), getEventsInRange() with its one (721) or  *)
(* two sequential (1155) log queries, the sort of the combined records,    *)
(* the fold into ownerRecords, the write of the ledger and process.exit.   *)
(*                                                                         *)
(* JavaScript runs each callback to completion: the for loop of main()     *)
(* dispatches a whole group without interruption and query results are     *)
(* delivered only while main() is suspended in `await Promise.all`.        *)
(***************************************************************************)
EXTENDS Integers, Sequences, FiniteSets, TLC

VARIABLES
    TOKEN_CONTRACT_ADDRESS, \* argv.contract: [defined, length]
    ERC_STANDARD,           \* parseInt(argv.erc, 10), NaN included
    BLOCK_FROM,             \* parseInt(argv.from, 10)
    BLOCK_TO,               \* parseInt(argv.to, 10)
    log,                    \* the contract's event log as the node serves it
    pc,                     \* position of the script
    fromBlock, toBlock,     \* main(): bounds of the next chunk
    batchIdx,               \* main(): counter of the for loop
    group,                  \* number of while-loop iterations started
    calls,                  \* every getEventsInRange() invocation, in call order
    nQueries,               \* number of queryFilter() requests sent so far
    transferRecords,        \* main(): the combined record list
    sortInput,              \* <<>> until sort() is called, then <<its input>>
    ownerRecords,           \* main(): the ledger being folded
    nextTransfer,           \* position of the for-of loop over transferRecords
    output,                 \* <<>> until writeFileSync, then <<the ledger written>>
    failure,                \* <<>> or <<the query that failed>>
    exitStatus              \* <<>> while running, <<code>> once the process exited

vars == <<TOKEN_CONTRACT_ADDRESS, ERC_STANDARD, BLOCK_FROM, BLOCK_TO, log, pc,
          fromBlock, toBlock, batchIdx, group, calls, nQueries,
          transferRecords, sortInput, ownerRecords, nextTransfer, output,
          failure, exitStatus>>

config == <<TOKEN_CONTRACT_ADDRESS, ERC_STANDARD, BLOCK_FROM, BLOCK_TO, log>>

(***************************************************************************)
(* Program constants                                                       *)
(***************************************************************************)
BLOCK_SIZE == 250

BATCH_NUMBER == 10

ADDRESS_LENGTH == 42

\* parseInt of a missing or non-numeric argument; every comparison with it
\* is false and !NaN is true.  No numeric argument below takes this value.
NaN == -1

(***************************************************************************)
(* Bounds and input sets                                                   *)
(***************************************************************************)
\* short ranges: BLOCK_TO - BLOCK_FROM = 125 * k for k in 0..MaxHalfChunks
MaxHalfChunks == 5

\* the longest event log of SeqSpec
MaxLogLen == 3

\* a range long enough to fill one fetch group (11 chunks) and start a second
LongSpans == {3300}

Spans == {-1} \union {125 * k : k \in 0..MaxHalfChunks} \union LongSpans

AddressChoices ==
    {[defined |-> FALSE, length |-> 0]} \union
    {[defined |-> TRUE, length |-> n] : n \in {0, 41, 42, 43}}

ErcChoices == {NaN, 0, 20, 721, 777, 1155}

ZERO == "0x0"

\* ethers BigNumber: its value when it fits a JavaScript safe integer
BigNumber(n) == [value |-> n, safe |-> TRUE]

HugeNumber == [value |-> 0, safe |-> FALSE]

Transfer(b, t, l, f, to, id) ==
    [event |-> "Transfer", blockNumber |-> b, transactionIndex |-> t, logIndex |-> l,
     args |-> [from |-> f, to |-> to, tokenId |-> BigNumber(id)]]

TransferSingle(b, t, l, f, to, id, amt) ==
    [event |-> "TransferSingle", blockNumber |-> b, transactionIndex |-> t, logIndex |-> l,
     args |-> [_from |-> f, _to |-> to, _id |-> BigNumber(id), _amount |-> amt]]

TransferBatch(b, t, l, f, to, ids, amts) ==
    [event |-> "TransferBatch", blockNumber |-> b, transactionIndex |-> t, logIndex |-> l,
     args |-> [_from |-> f, _to |-> to,
               _ids |-> [i \in DOMAIN ids |-> BigNumber(ids[i])],
               _amounts |-> [i \in DOMAIN amts |-> BigNumber(amts[i])]]]

\* a log without key ties, served out of block order inside the first chunk
LogA ==
    << Transfer(1200, 0, 1, "A", "B", 7),
       Transfer(1100, 2, 0, ZERO, "A", 7),
       Transfer(1100, 2, 1, ZERO, "A", 8),
       Transfer(1400, 0, 0, "B", "B", 7),
       Transfer(1625, 0, 0, "B", "A", 8),
       TransferSingle(1200, 1, 0, "A", "B", 1, BigNumber(2)),
       TransferSingle(1100, 0, 0, ZERO, "A", 1, BigNumber(5)),
       TransferBatch(1150, 0, 3, "A", "B", <<1, 2>>, <<3, 5>>),
       TransferSingle(1400, 0, 0, "B", ZERO, 1, BigNumber(1)),
       TransferBatch(1450, 0, 0, ZERO, "B", <<2>>, <<4>>) >>

\* a log in which the node serves two entries with one key, and one amount
\* that does not fit a JavaScript number
LogB ==
    << Transfer(1100, 0, 0, ZERO, "A", 7),
       Transfer(1100, 0, 0, ZERO, "A", 7),
       TransferSingle(1100, 0, 0, ZERO, "A", 1, BigNumber(5)),
       TransferSingle(1100, 0, 0, ZERO, "B", 2, BigNumber(1)),
       TransferSingle(4100, 0, 0, "A", "B", 1, HugeNumber) >>

Logs == {LogA, LogB}

(***************************************************************************)
(* Helpers                                                                 *)
(***************************************************************************)
\* Math.min left out: the second argument unclipped
Min_NoClip(a, b) == b

Min(a, b) == IF a < b THEN a ELSE b

Return(v) == [throw |-> FALSE, value |-> v]

Throw == [throw |-> TRUE, value |-> <<>>]

RECURSIVE Concat(_)
Concat(ss) == IF ss = <<>> THEN <<>> ELSE Head(ss) \o Concat(Tail(ss))

\* BigNumber.toString(): the decimal digits
toString(bn) == ToString(bn.value)

\* BigNumber.toNumber(): throws when the value is not a safe integer
toNumber(bn) == IF bn.safe THEN Return(bn.value) ELSE Throw

\* tokenContract.queryFilter(filter, fromBlock, toBlock) when it succeeds
queryFilter(name, fb, tb) ==
    SelectSeq(log, LAMBDA e : e.event = name /\ fb <= e.blockNumber /\ e.blockNumber <= tb)

(***************************************************************************)
(* getEventsInRange(): normalisation of the raw events                     *)
(***************************************************************************)
\* lines 145-155: one record per Transfer event, amount 1
transferEventRecords(events) ==
    [i \in DOMAIN events |->
        [blockNumber |-> events[i].blockNumber,
         transactionIndex |-> events[i].transactionIndex,
         logIndex |-> events[i].logIndex,
         from |-> events[i].args.from,
         to |-> events[i].args.to,
         id |-> toString(events[i].args.tokenId),
         amount |-> 1]]

\* lines 169-179: one record per TransferSingle event; toNumber() may throw
singleEventRecords(events) ==
    IF \E i \in DOMAIN events : toNumber(events[i].args._amount).throw
    THEN Throw
    ELSE Return([i \in DOMAIN events |->
        [blockNumber |-> events[i].blockNumber,
         transactionIndex |-> events[i].transactionIndex,
         logIndex |-> events[i].logIndex,
         from |-> events[i].args._from,
         to |-> events[i].args._to,
         id |-> toString(events[i].args._id),
         amount |-> toNumber(events[i].args._amount).value]])

\* `for (let idx in obj[prop])`: the indices of the array, none when the
\* object has no such property (for-in over undefined runs zero times)
forInKeys(obj, prop) ==
    IF prop \in DOMAIN obj THEN [i \in 1..Len(obj[prop]) |-> i] ELSE <<>>

\* lines 186-196: the inner loop runs over event._ids, a property of the
\* event object itself; the decoded arrays live in event.args
batchEventRecords(event) ==
    LET keys == forInKeys(event, "_ids") IN
    IF \E k \in DOMAIN keys : toNumber(event.args._amounts[keys[k]]).throw
    THEN Throw
    ELSE Return([k \in DOMAIN keys |->
        [blockNumber |-> event.blockNumber,
         transactionIndex |-> event.transactionIndex,
         logIndex |-> event.logIndex,
         from |-> event.args._from,
         to |-> event.args._to,
         id |-> toString(event.args._ids[keys[k]]),
         amount |-> toNumber(event.args._amounts[keys[k]]).value]])

\* lines 185-197: the outer loop over the TransferBatch events
batchRecords(events) ==
    IF \E i \in DOMAIN events : batchEventRecords(events[i]).throw
    THEN Throw
    ELSE Return(Concat([i \in DOMAIN events |-> batchEventRecords(events[i]).value]))

\* the first query getEventsInRange() sends, "resolved" when it sends none
firstQuery ==
    IF ERC_STANDARD = 721 THEN "Transfer"
    ELSE IF ERC_STANDARD = 1155 THEN "TransferSingle"
    ELSE "resolved"

QueryNames == {"Transfer", "TransferSingle", "TransferBatch"}

(***************************************************************************)
(* The comparator and Array.prototype.sort                                 *)
(***************************************************************************)
\* the comparator with the logIndex branches exchanged
compare_LogIndexReversed(a, b) ==
    IF a.blockNumber < b.blockNumber THEN Return(-1)
    ELSE IF a.blockNumber > b.blockNumber THEN Return(1)
    ELSE IF a.transactionIndex < b.transactionIndex THEN Return(-1)
    ELSE IF a.transactionIndex > b.transactionIndex THEN Return(1)
    ELSE IF a.logIndex < b.logIndex THEN Return(1)
    ELSE IF a.logIndex > b.logIndex THEN Return(-1)
    ELSE Throw

\* lines 79-99
compare(a, b) ==
    IF a.blockNumber < b.blockNumber THEN Return(-1)
    ELSE IF a.blockNumber > b.blockNumber THEN Return(1)
    ELSE IF a.transactionIndex < b.transactionIndex THEN Return(-1)
    ELSE IF a.transactionIndex > b.transactionIndex THEN Return(1)
    ELSE IF a.logIndex < b.logIndex THEN Return(-1)
    ELSE IF a.logIndex > b.logIndex THEN Return(1)
    ELSE Throw

\* insertion of x into the sorted prefix s, scanning from position j down;
\* a throw of the comparator ends the sort
RECURSIVE insert(_, _, _)
insert(s, x, j) ==
    IF j = 0 THEN Return(<<x>> \o s)
    ELSE LET c == compare(s[j], x) IN
         IF c.throw THEN Throw
         ELSE IF c.value > 0 THEN insert(s, x, j - 1)
         ELSE Return(SubSeq(s, 1, j) \o <<x>> \o SubSeq(s, j + 1, Len(s)))

RECURSIVE sortFrom(_, _)
sortFrom(s, rest) ==
    IF rest = <<>> THEN Return(s)
    ELSE LET r == insert(s, Head(rest), Len(s)) IN
         IF r.throw THEN Throw ELSE sortFrom(r.value, Tail(rest))

\* transferRecords.sort(comparator)
sort(records) == sortFrom(<<>>, records)

(***************************************************************************)
(* The fold into ownerRecords                                              *)
(***************************************************************************)
hasOwnProperty(obj, k) == k \in DOMAIN obj

\* an assignment that replaces the object instead of adding the property
setProperty_Replace(obj, k, v) == [x \in {k} |-> v]

setProperty(obj, k, v) ==
    [x \in DOMAIN obj \union {k} |-> IF x = k THEN v ELSE obj[x]]

\* the debit with `=` where line 112 has `-=`
debit_Assign(ledger, t) ==
    LET l1 == IF t.from \notin DOMAIN ledger
              THEN [x \in DOMAIN ledger \union {t.from} |->
                        IF x = t.from THEN <<>> ELSE ledger[x]]
              ELSE ledger
    IN  [x \in DOMAIN l1 |->
            IF x = t.from
            THEN [y \in DOMAIN l1[x] \union {t.id} |->
                      IF y = t.id THEN 0 - t.amount ELSE l1[x][y]]
            ELSE l1[x]]

\* lines 105-113
debit(ledger, t) ==
    LET l1 == IF ~hasOwnProperty(ledger, t.from)
              THEN setProperty(ledger, t.from, <<>>) ELSE ledger
    IN  IF ~hasOwnProperty(l1[t.from], t.id)
        THEN setProperty(l1, t.from, setProperty(l1[t.from], t.id, 0 - t.amount))
        ELSE setProperty(l1, t.from,
                         setProperty(l1[t.from], t.id, l1[t.from][t.id] - t.amount))

\* the credit with `=` where line 122 has `+=`
credit_Assign(ledger, t) ==
    LET l1 == IF t.to \notin DOMAIN ledger
              THEN [x \in DOMAIN ledger \union {t.to} |->
                        IF x = t.to THEN <<>> ELSE ledger[x]]
              ELSE ledger
    IN  [x \in DOMAIN l1 |->
            IF x = t.to
            THEN [y \in DOMAIN l1[x] \union {t.id} |->
                      IF y = t.id THEN t.amount ELSE l1[x][y]]
            ELSE l1[x]]

\* lines 115-123
credit(ledger, t) ==
    LET l1 == IF ~hasOwnProperty(ledger, t.to)
              THEN setProperty(ledger, t.to, <<>>) ELSE ledger
    IN  IF ~hasOwnProperty(l1[t.to], t.id)
        THEN setProperty(l1, t.to, setProperty(l1[t.to], t.id, t.amount))
        ELSE setProperty(l1, t.to,
                         setProperty(l1[t.to], t.id, l1[t.to][t.id] + t.amount))

\* one iteration of the for-of loop, lines 104-124
applyTransfer(ledger, t) == credit(debit(ledger, t), t)

(***************************************************************************)
(* The run                                                                 *)
(***************************************************************************)
\* the script before its first statement
start ==
    /\ pc = "validate"
    /\ fromBlock = 0
    /\ toBlock = 0
    /\ batchIdx = 0
    /\ group = 0
    /\ calls = <<>>
    /\ nQueries = 0
    /\ transferRecords = <<>>
    /\ sortInput = <<>>
    /\ ownerRecords = <<>>
    /\ nextTransfer = 0
    /\ output = <<>>
    /\ failure = <<>>
    /\ exitStatus = <<>>

Init ==
    /\ TOKEN_CONTRACT_ADDRESS \in AddressChoices
    /\ ERC_STANDARD \in ErcChoices
    /\ BLOCK_FROM = 1000
    /\ BLOCK_TO \in {1000 + s : s \in Spans}
    /\ log \in Logs
    /\ start

\* process.exit(code): the process ends and every pending request dies with it
processExit(code) ==
    /\ pc' = "exited"
    /\ exitStatus' = <<code>>
    /\ calls' = [i \in DOMAIN calls |->
                    [calls[i] EXCEPT !.state = "exited", !.transferRecords = <<>>]]

\* the length test of line 21 written as `<`
invalidAddress_TooShortOnly ==
    \/ ~TOKEN_CONTRACT_ADDRESS.defined
    \/ TOKEN_CONTRACT_ADDRESS.length = 0
    \/ TOKEN_CONTRACT_ADDRESS.length < ADDRESS_LENGTH

\* line 21
invalidAddress ==
    \/ ~TOKEN_CONTRACT_ADDRESS.defined
    \/ TOKEN_CONTRACT_ADDRESS.length = 0
    \/ TOKEN_CONTRACT_ADDRESS.length # ADDRESS_LENGTH

\* line 27
invalidStandard ==
    \/ ERC_STANDARD = NaN
    \/ ERC_STANDARD = 0
    \/ ERC_STANDARD \notin {20, 721, 1155}

\* line 30
unsupportedStandard == ERC_STANDARD = 20

\* lines 20-38: each rejection calls process.exit() without a code, which
\* ends the process with status 0; otherwise line 206 calls main()
Validation ==
    /\ pc = "validate"
    /\ IF invalidAddress \/ invalidStandard \/ unsupportedStandard
       THEN /\ processExit(0)
       ELSE /\ pc' = "main"
            /\ UNCHANGED <<exitStatus, calls>>
    /\ UNCHANGED <<config, fromBlock, toBlock, batchIdx, group, nQueries,
                   transferRecords, sortInput, ownerRecords, nextTransfer,
                   output, failure>>

\* lines 44-53
MainSetup ==
    /\ pc = "main"
    /\ fromBlock' = BLOCK_FROM
    /\ toBlock' = Min(BLOCK_TO, BLOCK_FROM + BLOCK_SIZE)
    /\ transferRecords' = <<>>
    /\ pc' = "while"
    /\ UNCHANGED <<config, batchIdx, group, calls, nQueries, sortInput,
                   ownerRecords, nextTransfer, output, failure, exitStatus>>

\* the loop test of line 56 written as `<=`
whileCondition_Inclusive == toBlock <= BLOCK_TO

\* line 56, the loop condition
whileCondition == toBlock < BLOCK_TO

\* lines 56-61: the loop test, then `promises = []` and `batchIdx = 0`
WhileTest ==
    /\ pc = "while"
    /\ IF whileCondition
       THEN /\ pc' = "for"
            /\ batchIdx' = 0
            /\ group' = group + 1
       ELSE /\ pc' = "sort"
            /\ UNCHANGED <<batchIdx, group>>
    /\ UNCHANGED <<config, fromBlock, toBlock, calls, nQueries, transferRecords,
                   sortInput, ownerRecords, nextTransfer, output, failure,
                   exitStatus>>

\* line 64: getEventsInRange() runs up to its first await, which sends its
\* first query
newCall ==
    [fromBlock |-> fromBlock, toBlock |-> toBlock, group |-> group,
     state |-> firstQuery, transferRecords |-> <<>>]

\* the loop of line 61 running one iteration more
forCondition_OneMore == batchIdx <= BATCH_NUMBER + 1

\* line 61, the loop condition
forCondition == batchIdx <= BATCH_NUMBER

\* lines 61-73: one iteration of the for loop
ForBody ==
    /\ pc = "for"
    /\ forCondition
    /\ calls' = Append(calls, newCall)
    /\ nQueries' = IF firstQuery \in QueryNames THEN nQueries + 1 ELSE nQueries
    /\ fromBlock' = toBlock + 1
    /\ toBlock' = Min(BLOCK_TO, toBlock + BLOCK_SIZE)
    /\ IF BLOCK_TO = toBlock'
       THEN /\ pc' = "await"
            /\ UNCHANGED batchIdx
       ELSE /\ pc' = "for"
            /\ batchIdx' = batchIdx + 1
    /\ UNCHANGED <<config, group, transferRecords, sortInput, ownerRecords,
                   nextTransfer, output, failure, exitStatus>>

\* line 61: the loop condition fails after BATCH_NUMBER + 1 iterations
ForExit ==
    /\ pc = "for"
    /\ ~forCondition
    /\ pc' = "await"
    /\ UNCHANGED <<config, fromBlock, toBlock, batchIdx, group, calls, nQueries,
                   transferRecords, sortInput, ownerRecords, nextTransfer,
                   output, failure, exitStatus>>

\* a throw inside getEventsInRange() rejects its promise, Promise.all rejects,
\* main() rejects and the catch handler of line 208 exits with status 1
mainRejects ==
    /\ processExit(1)
    /\ UNCHANGED <<config, fromBlock, toBlock, batchIdx, group, nQueries,
                   transferRecords, sortInput, ownerRecords, nextTransfer, output>>

\* lines 142-157: the Transfer query of call i returns
TransferReturns(i) ==
    /\ pc = "await"
    /\ calls[i].state = "Transfer"
    /\ calls' = [calls EXCEPT ![i] = [@ EXCEPT
            !.state = "resolved",
            !.transferRecords = @ \o transferEventRecords(
                queryFilter("Transfer", calls[i].fromBlock, calls[i].toBlock))]]
    /\ UNCHANGED <<config, pc, fromBlock, toBlock, batchIdx, group, nQueries,
                   transferRecords, sortInput, ownerRecords, nextTransfer,
                   output, failure, exitStatus>>

\* lines 166-182: the TransferSingle query of call i returns, its records are
\* stored and the TransferBatch query is sent
TransferSingleReturns(i) ==
    /\ pc = "await"
    /\ calls[i].state = "TransferSingle"
    /\ LET r == singleEventRecords(
                    queryFilter("TransferSingle", calls[i].fromBlock, calls[i].toBlock))
       IN  IF r.throw
           THEN /\ mainRejects
                /\ UNCHANGED failure
           ELSE /\ calls' = [calls EXCEPT ![i] = [@ EXCEPT
                        !.state = "TransferBatch",
                        !.transferRecords = @ \o r.value]]
                /\ nQueries' = nQueries + 1
                /\ UNCHANGED <<config, pc, fromBlock, toBlock, batchIdx, group,
                               transferRecords, sortInput, ownerRecords,
                               nextTransfer, output, failure, exitStatus>>

\* lines 182-203: the TransferBatch query of call i returns
TransferBatchReturns(i) ==
    /\ pc = "await"
    /\ calls[i].state = "TransferBatch"
    /\ LET r == batchRecords(
                    queryFilter("TransferBatch", calls[i].fromBlock, calls[i].toBlock))
       IN  IF r.throw
           THEN /\ mainRejects
                /\ UNCHANGED failure
           ELSE /\ calls' = [calls EXCEPT ![i] = [@ EXCEPT
                        !.state = "resolved",
                        !.transferRecords = @ \o r.value]]
                /\ UNCHANGED <<config, pc, fromBlock, toBlock, batchIdx, group,
                               nQueries, transferRecords, sortInput, ownerRecords,
                               nextTransfer, output, failure, exitStatus>>

\* a failed query swallowed: the call resolves without records
QueryFails_Swallowed(i) ==
    /\ pc = "await"
    /\ calls[i].state \in QueryNames
    /\ failure = <<>>
    /\ failure' = <<[fromBlock |-> calls[i].fromBlock, toBlock |-> calls[i].toBlock,
                     query |-> calls[i].state, group |-> calls[i].group,
                     nQueries |-> nQueries, nCalls |-> Len(calls),
                     fetched |-> Len(transferRecords)]>>
    /\ calls' = [calls EXCEPT ![i] = [@ EXCEPT !.state = "resolved"]]
    /\ UNCHANGED <<config, pc, fromBlock, toBlock, batchIdx, group, nQueries,
                   transferRecords, sortInput, ownerRecords, nextTransfer,
                   output, exitStatus>>

\* lines 142, 166, 182: the pending query of call i fails (queryFilter rejects)
QueryFails(i) ==
    /\ pc = "await"
    /\ calls[i].state \in QueryNames
    /\ failure' = <<[fromBlock |-> calls[i].fromBlock, toBlock |-> calls[i].toBlock,
                     query |-> calls[i].state, group |-> calls[i].group,
                     nQueries |-> nQueries, nCalls |-> Len(calls),
                     fetched |-> Len(transferRecords)]>>
    /\ mainRejects

\* only the promises already fulfilled are handed to Promise.all
promises_ResolvedOnly == SelectSeq(calls, LAMBDA c : c.group = group /\ c.state = "resolved")

\* the promises array of the current while iteration
promises == SelectSeq(calls, LAMBDA c : c.group = group)

\* line 75 without the await: main() goes on while queries are pending
allResolved_NoAwait == TRUE

\* line 75, the guard of `await Promise.all(promises)`
allResolved == \A i \in DOMAIN promises : promises[i].state = "resolved"

\* Promise.race in place of Promise.all: main() resumes with the first result
AwaitAll_Race ==
    /\ pc = "await"
    /\ \E i \in DOMAIN promises : promises[i].state = "resolved"
    /\ transferRecords' = transferRecords \o
            Concat([i \in DOMAIN promises |-> promises[i].transferRecords])
    /\ pc' = "while"
    /\ UNCHANGED <<config, fromBlock, toBlock, batchIdx, group, calls, nQueries,
                   sortInput, ownerRecords, nextTransfer, output, failure,
                   exitStatus>>

\* line 75: every promise of the group is fulfilled and the results are
\* concatenated in call order
AwaitAll ==
    /\ pc = "await"
    /\ allResolved
    /\ transferRecords' = transferRecords \o
            Concat([i \in DOMAIN promises |-> promises[i].transferRecords])
    /\ pc' = "while"
    /\ UNCHANGED <<config, fromBlock, toBlock, batchIdx, group, calls, nQueries,
                   sortInput, ownerRecords, nextTransfer, output, failure,
                   exitStatus>>

\* lines 79-102: sort in place; a throw of the comparator rejects main()
Sort ==
    /\ pc = "sort"
    /\ sortInput' = <<transferRecords>>
    /\ LET r == sort(transferRecords) IN
       IF r.throw
       THEN /\ processExit(1)
            /\ UNCHANGED <<transferRecords, ownerRecords, nextTransfer>>
       ELSE /\ transferRecords' = r.value
            /\ ownerRecords' = <<>>
            /\ nextTransfer' = 1
            /\ pc' = "replay"
            /\ UNCHANGED <<calls, exitStatus>>
    /\ UNCHANGED <<config, fromBlock, toBlock, batchIdx, group, nQueries,
                   output, failure>>

\* lines 104-124: one iteration of the for-of loop
ReplayStep ==
    /\ pc = "replay"
    /\ nextTransfer <= Len(transferRecords)
    /\ ownerRecords' = applyTransfer(ownerRecords, transferRecords[nextTransfer])
    /\ nextTransfer' = nextTransfer + 1
    /\ UNCHANGED <<config, pc, fromBlock, toBlock, batchIdx, group, calls,
                   nQueries, transferRecords, sortInput, output, failure,
                   exitStatus>>

\* lines 126-128: the ledger is written
WriteLedger ==
    /\ pc = "replay"
    /\ nextTransfer > Len(transferRecords)
    /\ output' = <<ownerRecords>>
    /\ pc' = "written"
    /\ UNCHANGED <<config, fromBlock, toBlock, batchIdx, group, calls, nQueries,
                   transferRecords, sortInput, ownerRecords, nextTransfer,
                   failure, exitStatus>>

\* line 207 without process.exit(0): the provider keeps the event loop alive
ExitOk_NoExit ==
    /\ pc = "written"
    /\ pc' = "idle"
    /\ UNCHANGED <<config, fromBlock, toBlock, batchIdx, group, calls, nQueries,
                   transferRecords, sortInput, ownerRecords, nextTransfer,
                   output, failure, exitStatus>>

\* line 207: main() resolved
ExitOk ==
    /\ pc = "written"
    /\ processExit(0)
    /\ UNCHANGED <<config, fromBlock, toBlock, batchIdx, group, nQueries,
                   transferRecords, sortInput, ownerRecords, nextTransfer,
                   output, failure>>

Next ==
    \/ Validation
    \/ MainSetup
    \/ WhileTest
    \/ ForBody
    \/ ForExit
    \/ \E i \in DOMAIN calls : TransferReturns(i)
    \/ \E i \in DOMAIN calls : TransferSingleReturns(i)
    \/ \E i \in DOMAIN calls : TransferBatchReturns(i)
    \/ \E i \in DOMAIN calls : QueryFails(i)
    \/ AwaitAll
    \/ Sort
    \/ ReplayStep
    \/ WriteLedger
    \/ ExitOk

Spec == Init /\ [][Next]_vars

\* the runs of Init, the long range being fetched with one query per chunk
\* only (standard 721)
FairInit ==
    /\ Init
    /\ ERC_STANDARD = 1155 => (BLOCK_TO - BLOCK_FROM) \notin LongSpans

\* the event loop runs every callback that is ready, and every query sent
\* is answered or fails
FairSpec == FairInit /\ [][Next]_vars /\ WF_vars(Next)

(***************************************************************************)
(* The same run over one chunk of a multi-asset contract, for every short  *)
(* event log the node can serve: the inputs of the sort and of the fold.   *)
(***************************************************************************)
SeqKeys == {<<1100, 0, 0>>, <<1100, 0, 1>>, <<1100, 1, 0>>, <<1200, 0, 0>>}

\* a mint, a transfer of the same asset and a self-transfer of another one
SeqPayloads == {<<ZERO, "A", 7, 1>>, <<"A", "B", 7, 2>>, <<"B", "B", 2, 1>>}

SeqEvents ==
    {TransferSingle(k[1], k[2], k[3], p[1], p[2], p[3], BigNumber(p[4])) :
        k \in SeqKeys, p \in SeqPayloads}
    \union {TransferBatch(1100, 0, 1, "A", "B", <<1, 2>>, <<3, 5>>)}

SeqLogs == UNION {[1..n -> SeqEvents] : n \in 0..MaxLogLen}

SeqInit ==
    /\ TOKEN_CONTRACT_ADDRESS = [defined |-> TRUE, length |-> 42]
    /\ ERC_STANDARD = 1155
    /\ BLOCK_FROM = 1000
    /\ BLOCK_TO = 1251
    /\ log \in SeqLogs
    /\ start

SeqNext ==
    \/ Validation
    \/ MainSetup
    \/ WhileTest
    \/ ForBody
    \/ \E i \in DOMAIN calls : TransferSingleReturns(i)
    \/ \E i \in DOMAIN calls : TransferBatchReturns(i)
    \/ AwaitAll
    \/ Sort
    \/ ReplayStep
    \/ WriteLedger
    \/ ExitOk

SeqSpec == SeqInit /\ [][SeqNext]_vars

(***************************************************************************)
(* Properties                                                              *)
(***************************************************************************)
Outstanding == {i \in DOMAIN calls : calls[i].state \in QueryNames}

\* the fetch loop has ended and no query failed
FetchDone == pc = "sort"

CeilDiv(n, d) == (n + d - 1) \div d

Key(r) == <<r.blockNumber, r.transactionIndex, r.logIndex>>

KeyLeq(a, b) ==
    \/ a[1] < b[1]
    \/ a[1] = b[1] /\ a[2] < b[2]
    \/ a[1] = b[1] /\ a[2] = b[2] /\ a[3] <= b[3]

Count(seq, x) == Cardinality({i \in DOMAIN seq : seq[i] = x})

IsPermutation(a, b) ==
    /\ Len(a) = Len(b)
    /\ \A i \in DOMAIN a : Count(a, a[i]) = Count(b, a[i])

HasTie(seq) == \E i, j \in DOMAIN seq : i # j /\ Key(seq[i]) = Key(seq[j])

Sequenced == pc \in {"replay", "written"}

\* C1: when the fetch loop ends without a failed query and from <= to, the
\* chunks queried are contiguous, do not overlap, stay inside [from, to] and
\* every block of [from, to], block `to` included, lies in exactly one of them.
C1_ChunksCoverRange ==
    (FetchDone /\ BLOCK_FROM <= BLOCK_TO) =>
        /\ \A b \in BLOCK_FROM..BLOCK_TO :
              Cardinality({i \in DOMAIN calls :
                  calls[i].fromBlock <= b /\ b <= calls[i].toBlock}) = 1
        /\ \A i \in DOMAIN calls :
              /\ BLOCK_FROM <= calls[i].fromBlock
              /\ calls[i].toBlock <= BLOCK_TO
              /\ i > 1 => calls[i].fromBlock = calls[i - 1].toBlock + 1

\* C2: when the fetch loop ends without a failed query and from <= to, it has
\* dispatched ceil((to - from + 1) / 250) chunks and the i-th (from 0) is
\* [from + 250 i, min(to, from + 250 (i + 1) - 1)].
C2_ChunkCountAndBounds ==
    (FetchDone /\ BLOCK_FROM <= BLOCK_TO) =>
        /\ Len(calls) = CeilDiv(BLOCK_TO - BLOCK_FROM + 1, 250)
        /\ \A i \in DOMAIN calls :
              /\ calls[i].fromBlock = BLOCK_FROM + (i - 1) * 250
              /\ calls[i].toBlock = Min(BLOCK_TO, BLOCK_FROM + i * 250 - 1)

\* C3: once a query has failed the run is over with status 1: no chunk and no
\* query was dispatched after the failure, no later group was started, the
\* sort and the fold never ran and no ledger was written.
C3_FailFastAbort ==
    failure # <<>> =>
        /\ pc = "exited"
        /\ exitStatus = <<1>>
        /\ Len(calls) = failure[1].nCalls
        /\ nQueries = failure[1].nQueries
        /\ group = failure[1].group
        /\ Outstanding = {}
        /\ sortInput = <<>>
        /\ ownerRecords = <<>>
        /\ output = <<>>

\* a query of the second group failed after the first group was fetched
C3_Witness ==
    /\ failure # <<>>
    /\ failure[1].group = 2
    /\ failure[1].fetched > 0
    /\ pc = "exited"

\* C4: a run that ended without writing the ledger (configuration error,
\* failed query, comparator throw) ended with a non-zero status.
C4_FailureExitsNonZero ==
    (pc = "exited" /\ output = <<>>) => exitStatus # <<0>>

ConfigError ==
    \/ ~TOKEN_CONTRACT_ADDRESS.defined
    \/ TOKEN_CONTRACT_ADDRESS.length # 42
    \/ ERC_STANDARD \notin {721, 1155}

\* C5: with a configuration error (address absent or not 42 characters,
\* standard not 721 or 1155) the run ends at validation: no chunk is
\* requested, no query is sent and no ledger is written.
C5_ConfigErrorBeforeFetch ==
    ConfigError =>
        /\ pc \in {"validate", "exited"}
        /\ calls = <<>>
        /\ nQueries = 0
        /\ output = <<>>

\* the run with the unsupported standard 20 and a good address has ended
C5_Witness ==
    /\ pc = "exited"
    /\ ERC_STANDARD = 20
    /\ TOKEN_CONTRACT_ADDRESS.defined
    /\ TOKEN_CONTRACT_ADDRESS.length = 42

\* C6: at most 11 log queries are pending at any time.
C6_AtMostElevenOutstanding == Cardinality(Outstanding) <= 11

\* 11 queries of a 1155 run are pending, some first and some second queries
C6_Witness ==
    /\ Cardinality(Outstanding) = 11
    /\ ERC_STANDARD = 1155
    /\ \E i \in Outstanding : calls[i].state = "TransferSingle"
    /\ \E i \in Outstanding : calls[i].state = "TransferBatch"

\* C7: every pending query belongs to the current group and every call of an
\* earlier group has completed: queries of two groups are never pending
\* together.
C7_GroupBarrier ==
    \A i \in Outstanding :
        /\ calls[i].group = group
        /\ \A j \in DOMAIN calls :
              calls[j].group < calls[i].group => calls[j].state = "resolved"

\* two queries of the second group are pending
C7_Witness ==
    /\ group = 2
    /\ Cardinality(Outstanding) = 2
    /\ \A i \in Outstanding : calls[i].group = 2
    /\ \E j \in DOMAIN calls : calls[j].group = 1

\* C8: after the sort the keys of adjacent records are non-decreasing and the
\* records are a permutation of the records given to the sort.
C8_SortedPermutation ==
    Sequenced =>
        /\ \A i \in 1..(Len(transferRecords) - 1) :
              KeyLeq(Key(transferRecords[i]), Key(transferRecords[i + 1]))
        /\ IsPermutation(transferRecords, sortInput[1])

\* the sort had to reorder three records
C8_Witness ==
    /\ Sequenced
    /\ Len(transferRecords) = 3
    /\ transferRecords # sortInput[1]

\* C9: when two records given to the sort share a key, the sort raises no
\* error, the run goes on to the fold, and records with equal keys keep their
\* input order.
C9_TiesHandled ==
    (sortInput # <<>> /\ HasTie(sortInput[1])) =>
        /\ exitStatus # <<1>>
        /\ Sequenced \/ pc = "exited"
        /\ Sequenced =>
              \A i, j \in DOMAIN transferRecords :
                  (i < j /\ Key(transferRecords[i]) = Key(transferRecords[j])) =>
                      \E k, l \in DOMAIN sortInput[1] :
                          /\ k < l
                          /\ sortInput[1][k] = transferRecords[i]
                          /\ sortInput[1][l] = transferRecords[j]

\* the records a TransferBatch event stands for: one per array index
ExpandedBatch(event) ==
    [k \in DOMAIN event.args._ids |->
        [blockNumber |-> event.blockNumber,
         transactionIndex |-> event.transactionIndex,
         logIndex |-> event.logIndex,
         from |-> event.args._from,
         to |-> event.args._to,
         id |-> ToString(event.args._ids[k].value),
         amount |-> event.args._amounts[k].value]]

\* C10: a completed 1155 call holds, after the records of its TransferSingle
\* events, N records for each TransferBatch event of its chunk with N ids, in
\* array order.
C10_BatchExpansion ==
    \A i \in DOMAIN calls :
        (ERC_STANDARD = 1155 /\ calls[i].state = "resolved") =>
            LET single == queryFilter("TransferSingle", calls[i].fromBlock, calls[i].toBlock)
                batch == queryFilter("TransferBatch", calls[i].fromBlock, calls[i].toBlock)
            IN  SubSeq(calls[i].transferRecords, Len(single) + 1,
                       Len(calls[i].transferRecords))
                = Concat([k \in DOMAIN batch |-> ExpandedBatch(batch[k])])


\* the records the fold has consumed so far
Replayed == SubSeq(transferRecords, 1, nextTransfer - 1)

Replaying == pc \in {"replay", "written"}

RECURSIVE Received(_, _, _)
Received(seq, o, a) ==
    IF seq = <<>> THEN 0
    ELSE (IF Head(seq).to = o /\ Head(seq).id = a THEN Head(seq).amount ELSE 0)
         + Received(Tail(seq), o, a)

RECURSIVE Sent(_, _, _)
Sent(seq, o, a) ==
    IF seq = <<>> THEN 0
    ELSE (IF Head(seq).from = o /\ Head(seq).id = a THEN Head(seq).amount ELSE 0)
         + Sent(Tail(seq), o, a)

OwnersOf(seq) == {seq[i].from : i \in DOMAIN seq} \union {seq[i].to : i \in DOMAIN seq}

IdsOf(seq) == {seq[i].id : i \in DOMAIN seq}

HasEntry(ledger, o, a) == o \in DOMAIN ledger /\ a \in DOMAIN ledger[o]

\* the balance of (o, a), an absent entry being a balance of zero
Balance(ledger, o, a) == IF HasEntry(ledger, o, a) THEN ledger[o][a] ELSE 0

LedgerIds(ledger) == UNION {DOMAIN ledger[o] : o \in DOMAIN ledger}

RECURSIVE SumBalances(_, _, _)
SumBalances(ledger, owners, a) ==
    IF owners = {} THEN 0
    ELSE LET o == CHOOSE x \in owners : TRUE
         IN  Balance(ledger, o, a) + SumBalances(ledger, owners \ {o}, a)

MintRecord ==
    [blockNumber |-> 1100, transactionIndex |-> 0, logIndex |-> 0,
     from |-> ZERO, to |-> "A", id |-> "7", amount |-> 1]

\* C11: while and after the fold, the balance of every owner o and asset a is
\* the amount the replayed records sent to o in a minus the amount they took
\* from o in a; after the single mint record {zero -> A, id "7", amount 1} the
\* ledger is exactly {A: {"7": 1}, zero: {"7": -1}}.
C11_ReplayBalances ==
    Replaying =>
        /\ \A o \in OwnersOf(Replayed) \union DOMAIN ownerRecords :
           \A a \in IdsOf(Replayed) \union LedgerIds(ownerRecords) :
              Balance(ownerRecords, o, a) = Received(Replayed, o, a) - Sent(Replayed, o, a)
        /\ Replayed = <<MintRecord>> =>
              ownerRecords = ("A" :> ("7" :> 1)) @@ (ZERO :> ("7" :> (0 - 1)))

\* three records were folded, one owner ending below zero and one having
\* received the same asset twice its own sending
C11_Witness ==
    /\ pc = "written"
    /\ Len(Replayed) = 3
    /\ HasEntry(ownerRecords, "A", "7")
    /\ ownerRecords["A"]["7"] < 0
    /\ HasEntry(ownerRecords, "B", "7")
    /\ ownerRecords["B"]["7"] = 4

\* C12: after every prefix of the fold, self-transfers included, the balances
\* of each asset id summed over the owners of the ledger are zero.
C12_Conservation ==
    Replaying =>
        \A a \in LedgerIds(ownerRecords) :
            SumBalances(ownerRecords, DOMAIN ownerRecords, a) = 0

\* a self-transfer has been folded on top of an entry the owner already had
C12_Witness ==
    /\ Replaying
    /\ Len(Replayed) = 3
    /\ Replayed[2].from = Replayed[2].to
    /\ Replayed[3].from = Replayed[3].to
    /\ Replayed[1].from # Replayed[1].to


Referenced(seq, o, a) ==
    \E i \in DOMAIN seq : seq[i].id = a /\ (seq[i].from = o \/ seq[i].to = o)

\* C17: while and after the fold, the ledger has an entry for owner o and
\* asset a exactly when a replayed record has id a and from o or to o; an
\* owner is present exactly when a replayed record names it.
C17_LazyEntries ==
    Replaying =>
        /\ \A o \in OwnersOf(Replayed) \union DOMAIN ownerRecords :
           \A a \in IdsOf(Replayed) \union LedgerIds(ownerRecords) :
              HasEntry(ownerRecords, o, a) <=> Referenced(Replayed, o, a)
        /\ DOMAIN ownerRecords = OwnersOf(Replayed)

\* both assets are in the ledger, one owner holds both and the zero address
\* holds only the one it was named with
C17_Witness ==
    /\ pc = "written"
    /\ HasEntry(ownerRecords, "B", "7")
    /\ HasEntry(ownerRecords, "B", "2")
    /\ HasEntry(ownerRecords, ZERO, "7")
    /\ ~HasEntry(ownerRecords, ZERO, "2")
    /\ ~HasEntry(ownerRecords, "A", "2")


\* C14: every chunk handed to getEventsInRange lies inside the requested
\* range and is not empty: from <= fromBlock <= toBlock <= to.
C14_ChunkBounds ==
    \A i \in DOMAIN calls :
        /\ BLOCK_FROM <= calls[i].fromBlock
        /\ calls[i].fromBlock <= calls[i].toBlock
        /\ calls[i].toBlock <= BLOCK_TO

\* the fetch loop ended after two groups of chunks
C14_Witness ==
    /\ FetchDone
    /\ Len(calls) = 13
    /\ group = 2

\* C15: with from > to no chunk is requested, no query is sent, the record
\* list and the ledger stay empty, no failure occurs, and a run that passed
\* validation ends with status 0 having written the empty ledger.
C15_EmptyRange ==
    BLOCK_FROM > BLOCK_TO =>
        /\ calls = <<>>
        /\ nQueries = 0
        /\ transferRecords = <<>>
        /\ ownerRecords = <<>>
        /\ failure = <<>>
        /\ output \in {<<>>, << <<>> >>}
        /\ (pc = "exited" /\ ~ConfigError) => (exitStatus = <<0>> /\ output = << <<>> >>)

\* a 1155 run over an empty range has ended
C15_Witness ==
    /\ BLOCK_FROM > BLOCK_TO
    /\ ERC_STANDARD = 1155
    /\ pc = "exited"
    /\ output = << <<>> >>

\* C16: while the records are sorted, folded or written no query is pending,
\* every call has resolved and the fetch loop has no chunk left to request;
\* the combined list changes only by the sort or, at the end of an await, when
\* no query is pending.
C16_SequencingAfterFetch ==
    /\ [](pc \in {"sort", "replay", "written"} =>
            /\ Outstanding = {}
            /\ \A i \in DOMAIN calls : calls[i].state = "resolved"
            /\ toBlock >= BLOCK_TO)
    /\ [][transferRecords' # transferRecords =>
            \/ pc = "sort"
            \/ pc = "await" /\ pc' = "while" /\ Outstanding = {}]_vars

\* a record is being folded after two fetch groups
C16_Witness ==
    /\ pc = "replay"
    /\ nextTransfer > 1
    /\ group = 2
    /\ Len(calls) = 13

\* what getEventsInRange returns for a chunk, by the event log alone
ChunkRecords(fb, tb) ==
    IF ERC_STANDARD = 721
    THEN transferEventRecords(queryFilter("Transfer", fb, tb))
    ELSE IF ERC_STANDARD = 1155
    THEN singleEventRecords(queryFilter("TransferSingle", fb, tb)).value
         \o batchRecords(queryFilter("TransferBatch", fb, tb)).value
    ELSE <<>>

\* the records of the chunks requested, in chunk order
FetchedByLog ==
    Concat([i \in DOMAIN calls |-> ChunkRecords(calls[i].fromBlock, calls[i].toBlock)])

RECURSIVE FoldLedger(_, _)
FoldLedger(ledger, seq) ==
    IF seq = <<>> THEN ledger
    ELSE FoldLedger(applyTransfer(ledger, Head(seq)), Tail(seq))

\* C19: in a run without a failed query the sequence handed to the fold and
\* the ledger written are determined by the event log and the range: the
\* sorted records of the requested chunks and their fold, whatever the order
\* in which the queries completed.
C19_InterleavingDeterminism ==
    /\ Sequenced => transferRecords = sort(FetchedByLog).value
    /\ output # <<>> => output[1] = FoldLedger(<<>>, sort(FetchedByLog).value)

\* a 1155 run over two groups of concurrent calls wrote a ledger
C19_Witness ==
    /\ pc = "written"
    /\ ERC_STANDARD = 1155
    /\ Len(calls) = 13
    /\ Len(transferRecords) >= 3
    /\ output[1] # <<>>

\* C18: every run ends, and each chunk requested raises toBlock, which never
\* passes `to`.
C18_Termination ==
    /\ <>(pc = "exited")
    /\ [][Len(calls') > Len(calls) => (toBlock' > toBlock /\ toBlock' <= BLOCK_TO)]_vars

\* a run over two groups has ended after writing its ledger
C18_Witness ==
    /\ pc = "exited"
    /\ exitStatus = <<0>>
    /\ Len(calls) = 13
    /\ group = 2

====
